---------------------------- MODULE Spec2Model ----------------------------
(***************************************************************************)
(* Calcudoku solver: the region model (regions.py), the region index       *)
(* (input_output.py) and the backtracking generators (backtrack.py,        *)
(* solve.py, interf.py) as a state machine.                                *)
(*                                                                         *)
(* The source fixes the board at 64 cells and the digits at 1..8.  Here a  *)
(* puzzle carries its own size (cells, digits 1..n), so that the same      *)
(* search runs on boards small enough to enumerate.  Board cells hold a    *)
(* digit or Empty (Python's None); positions are 0-based as in the source. *)
(***************************************************************************)
EXTENDS Integers, Sequences, FiniteSets, TLC

\* ------------------------------------------------------------------ bounds

\* Latin puzzles (row and column regions only) are explored for 2..MaxN.
MaxN == 3

\* How many cells of yielded boards the consumer overwrites in one behaviour.
MaxMutations == 1

\* How many times the consumer invokes solve on the same region index.
MaxRuns == 2

\* Full enumeration of every board (the reference of exhaustiveness) is
\* done for puzzles with at most this many boards.
BruteLimit == 20000

\* Region evaluation alone is explored on regions of up to MaxProbeLen cells
\* holding digits up to MaxProbeDigit.
MaxProbeLen == 3

MaxProbeDigit == 4

\* Report intervals tried: progress_interval in 1..MaxInterval.
MaxInterval == 3

\* Names of custom regions a puzzle file defines.
MaxNames == 2

\* ------------------------------------------------------- regions.py helpers

\* None in a board cell; "if j" in getsquares drops it.
Empty == 0

RECURSIVE Sum(_)
Sum(l) == IF l = <<>> THEN 0 ELSE Head(l) + Sum(Tail(l))

RECURSIVE product(_)
product(l) == IF l = <<>> THEN 1 ELSE Head(l) * product(Tail(l))

RECURSIVE Max(_)
Max(l) == IF Len(l) = 1 THEN Head(l)
          ELSE LET m == Max(Tail(l)) IN IF Head(l) >= m THEN Head(l) ELSE m

skip_all(l, item) == SelectSeq(l, LAMBDA x : x # item)

\* Everything of l except item, the first time it occurs.
RECURSIVE skip_one(_, _)
skip_one(l, item) ==
    IF l = <<>> THEN <<>>
    ELSE IF Head(l) = item THEN Tail(l)
    ELSE <<Head(l)>> \o skip_one(Tail(l), item)

\* The maximum of l and all the rest.
partition_max(l) == LET m == Max(l) IN [m |-> m, rest |-> skip_one(l, m)]

\* A region: kind, target and positions; size is len(positions).
Region(kind, target, positions) ==
    [kind |-> kind, target |-> target, positions |-> positions]

size(r) == Len(r.positions)

getsquaresUnfiltered(r, b) == [k \in 1..Len(r.positions) |-> b[r.positions[k]]]

\* The filled-in squares of region r on board b, in the order of positions.
getsquares(r, b) ==
    SelectSeq([k \in 1..Len(r.positions) |-> b[r.positions[k]]],
              LAMBDA j : j # Empty)

Distinct(l) == Cardinality({l[k] : k \in 1..Len(l)}) = Len(l)

PlusFullValid(r, squares) == Sum(squares) = r.target

PlusPartialValid(r, squares) == Sum(squares) < r.target

TimesFullValid(r, squares) == product(squares) = r.target

TimesPartialSwapped(r, squares) == product(squares) % r.target = 0

TimesPartialValid(r, squares) == r.target % product(squares) = 0

MinusFullValid(r, squares) ==
    LET p == partition_max(squares) IN p.m = Sum(p.rest) + r.target

DivideFullValid(r, squares) ==
    LET p == partition_max(squares) IN p.m * r.target = product(p.rest)

SudokuFullValid(r, squares) == Distinct(squares)

fullvalid(r, squares) ==
    CASE r.kind = "plus"   -> PlusFullValid(r, squares)
      [] r.kind = "times"  -> TimesFullValid(r, squares)
      [] r.kind = "minus"  -> MinusFullValid(r, squares)
      [] r.kind = "divide" -> DivideFullValid(r, squares)
      [] r.kind = "sudoku" -> SudokuFullValid(r, squares)

\* Region.partialvalid returns True unless the subclass overrides it.
partialvalid(r, squares) ==
    CASE r.kind = "plus"   -> PlusPartialValid(r, squares)
      [] r.kind = "times"  -> TimesPartialValid(r, squares)
      [] r.kind = "sudoku" -> SudokuFullValid(r, squares)
      [] OTHER             -> TRUE

\* Whether isvalid dispatches to fullvalid on board b.
IsFull(r, b) == Len(getsquares(r, b)) = size(r)

isvalid(r, b) ==
    LET squares == getsquares(r, b)
    IN  IF Len(squares) = size(r) THEN fullvalid(r, squares)
        ELSE partialvalid(r, squares)

\* ------------------------------------------------- input_output.py helpers

\* range(k) as a sequence: <<0, ..., k-1>>.
Range0(k) == [i \in 1..k |-> i - 1]

RowRegionNoStride(n, start_pos) ==
    Region("sudoku", 0, [i \in 1..n |-> start_pos + (i - 1)])

\* Sudoku regions carry target None; it is never read.
RowRegion(n, start_pos) ==
    Region("sudoku", 0, [i \in 1..n |-> start_pos * n + (i - 1)])

ColumnRegion(n, start_pos) ==
    Region("sudoku", 0, [i \in 1..n |-> (i - 1) * n + start_pos])

ROWS(n) == [i \in 1..n |-> RowRegion(n, i - 1)]

COLUMNS(n) == [i \in 1..n |-> ColumnRegion(n, i - 1)]

build_regions(custom, n) == custom \o ROWS(n) \o COLUMNS(n)

Occurs(r, p) == \E k \in 1..Len(r.positions) : r.positions[k] = p

\* inv[p] lists, in the order of regs, the regions whose positions hold p.
invert_regions(regs, cells) ==
    [p \in 0..(cells - 1) |-> SelectSeq(regs, LAMBDA r : Occurs(r, p))]

\* ----------------------------------------------------------------- puzzles

Puzzle(n, cells, regionList) ==
    [n |-> n, cells |-> cells, all |-> regionList,
     regs |-> invert_regions(regionList, cells)]

\* Row and column uniqueness only, on an n x n board.
LatinPuzzle(n) == Puzzle(n, n * n, build_regions(<<>>, n))

\* A 3 x 3 calcudoku with one region of every kind.
CalcuPuzzle ==
    Puzzle(3, 9, build_regions(
        << Region("plus", 2, <<0, 4>>),
           Region("times", 6, <<1, 2>>),
           Region("divide", 2, <<3, 6, 7>>),
           Region("minus", 1, <<5, 8>>) >>, 3))

\* Two cells, digits 1..4, one Sum region with target 5.
ToyPuzzle == Puzzle(4, 2, << Region("plus", 5, <<0, 1>>) >>)

\* A Sum region of two cells with target 1: below the least possible sum.
ContraPuzzle ==
    Puzzle(2, 4, build_regions(
        << Region("times", 2, <<0, 1>>),
           Region("plus", 1, <<2, 3>>) >>, 2))

SmallPuzzles == {ToyPuzzle, ContraPuzzle, LatinPuzzle(2)}

\* Six cells, digits 1..4, no solution: the only region, on the last cell,
\* rejects every digit, so that the search visits 1 + 4 + ... + 4^5 nodes.
DeepPuzzle == Puzzle(4, 6, << Region("plus", 9, <<5>>) >>)

Puzzles == SmallPuzzles \cup {CalcuPuzzle} \cup {LatinPuzzle(n) : n \in 2..MaxN}

Engines == {"backtrack", "solve", "interf"}

\* ---------------------------------------------------------------- progress

\* How often to show a progress report (solve.py).
PROGRESS_RESET == 1000

\* A fraction of the search, exactly, in base n: int is the integer part,
\* digits[k] the digit of weight n^-(k+1).
ZeroFraction(cells) == [int |-> 0, digits |-> [k \in 0..(cells - 1) |-> 0]]

\* f + v * n^-(k+1), with carry.
RECURSIVE AddAt(_, _, _, _)
AddAt(f, k, v, n) ==
    IF v = 0 THEN f
    ELSE IF k < 0 THEN [int |-> f.int + v, digits |-> f.digits]
    ELSE LET s == f.digits[k] + v
         IN  AddAt([int |-> f.int,
                    digits |-> [j \in DOMAIN f.digits |->
                                   IF j = k THEN s % n ELSE f.digits[j]]],
                   k - 1, s \div n, n)

NextFractionShifted(f, p, i, n) == AddAt(f, p - 1, i - 1, n)

\* fraction + 8 ** -(pos + 1) * (i - 1)
NextFraction(f, p, i, n) == AddAt(f, p, i - 1, n)

\* The progress counters of one invocation of solve: its progress and
\* report-interval arguments, visited and progress_wait, and what it has
\* reported: periodic reports, the node (counted from 1) that made the
\* last one, the nodes from the report before it to the last one (0 while
\* there are fewer than two), rewrites after a yield, the final 100%.
Progress(on, interval) ==
    [on |-> on, interval |-> interval, visited |-> 0, wait |-> 0,
     periodic |-> 0, lastAt |-> 0, gap |-> 0, rewrites |-> 0, final |-> FALSE]

Reported(pr, node) ==
    [pr EXCEPT !.periodic = @ + 1,
               !.lastAt = node,
               !.gap = IF pr.periodic = 0 THEN 0 ELSE node - pr.lastAt]

\* The `if progress:` block at the top of _solve.
Visit(pr, e) ==
    IF ~pr.on \/ e = "interf" THEN pr
    ELSE IF e = "backtrack"
    THEN LET counted == [pr EXCEPT !.visited = @ + 1]
         IN  IF pr.visited % pr.interval = 0
             THEN Reported(counted, counted.visited) ELSE counted
    ELSE LET counted == [pr EXCEPT !.visited = @ + 1]
         IN  IF pr.wait <= 0
             THEN Reported([counted EXCEPT !.wait = PROGRESS_RESET], counted.visited)
             ELSE [counted EXCEPT !.wait = @ - 1]

\* ------------------------------------------------------------------- state

VARIABLES
    puzzle,   \* the region index handed to solve, with its size
    engine,   \* which generator runs: backtrack.solve, solve.solve, interf.solve
    heap,     \* the list objects: heap[id] is the contents of board object id
    wb,       \* id of the generator's working board (0 before it starts)
    pos,      \* depth of the innermost active _solve call
    iv,       \* iv[k]: how many items the loop at depth k has taken (0: none)
    pc,       \* where the generator is
    held,     \* ids of the boards the consumer received, in order
    log,      \* contents of each yielded board at the moment of its yield
    runs,     \* the logs of the earlier, exhausted invocations
    mutations,\* how many cells the consumer has overwritten
    probe,    \* one function applied alone: its input and its result
    prog,     \* the progress counters of the invocation
    stack,    \* the active _solve calls: fraction argument, board at entry
    trace,    \* the assignments and clears made so far, the last fraction
    other     \* a second generator over the same region index, suspended

vars == <<puzzle, engine, heap, wb, pos, iv, pc, held, log, runs, mutations,
          probe, prog, stack, trace, other>>

board == heap[wb]

regs == puzzle.regs

\* [None] * 64
NewBoard(cells) == [p \in 0..(cells - 1) |-> Empty]

NoLoop(cells) == [p \in 0..(cells - 1) |-> 0]

InitWith(ps, es) ==
    /\ puzzle \in ps
    /\ engine \in es
    /\ heap = <<>>
    /\ wb = 0
    /\ pos = 0
    /\ iv = NoLoop(puzzle.cells)
    /\ pc = "start"
    /\ held = <<>>
    /\ log = <<>>
    /\ runs = <<>>
    /\ mutations = 0

NoProbe ==
    [region |-> Region("none", 0, <<>>), board |-> <<>>,
     evaluated |-> FALSE, result |-> FALSE]

\* The assignments and clears are recorded where two runs are compared.
Trace(on) == [on |-> on, ops |-> <<>>, visits |-> 0, last |-> <<>>, now |-> <<>>]

NoOther == [pc |-> "none"]

\* progress=False, one generator.
Plain ==
    /\ prog = Progress(FALSE, 0)
    /\ stack = <<>>
    /\ trace = Trace(FALSE)
    /\ other = NoOther

Init == InitWith(Puzzles, {"backtrack"}) /\ probe = NoProbe /\ Plain

\* --------------------------------------------------------------- generator

AnyValid(rs, b) == \E k \in 1..Len(rs) : isvalid(rs[k], b)

\* all(r.isvalid(board) for r in regs[pos])
AllValid(rs, b) == \A k \in 1..Len(rs) : isvalid(rs[k], b)

ConsumedByValidation(rs, b) ==
    [q \in DOMAIN b |->
        IF \E k \in 1..Len(rs) : Occurs(rs[k], q) THEN Empty ELSE b[q]]

\* The board after all(r.isvalid(board) ...): isvalid, getsquares,
\* partition_max and skip_one read the board and build new lists.
AfterValidation(rs, b) == b

RangeDescending(k, n) == n + 1 - k

\* The k-th value (k = 1..n) the loop variable i takes in range(1, n + 1).
RangeItem(k, n) == k

NextIterStuck(k) == IF k = 0 THEN 1 ELSE k

\* The for loop moves on to the next item of its range.
NextIter(k) == k + 1

\* The digit the _solve call at depth p last assigned to its cell, if its
\* loop has started.
LoopDigit(p) == IF iv[p] = 0 THEN Empty ELSE RangeItem(iv[p], puzzle.n)

TerminalOneEarly(p, cells) == p = cells - 1

\* pos == len(board)
IsTerminal(p, cells) == p = cells

YieldsOnlyWithProgress(on) == on

\* yield board.copy() is outside the `if progress:` blocks around it.
YieldsSolution(on) == TRUE

NotCleared(b, p) == b

\* board[pos] = None
ClearCell(b, p) == [b EXCEPT ![p] = Empty]

\* The object handed to the consumer: board.copy() is a new list object,
\* interf.solve yields the working board itself.
YieldedAlias(e, h, w) == w

YieldedId(e, h, w) == IF e = "interf" THEN w ELSE Len(h) + 1

SharedBoardId(h) == 1

\* The list object [None] * 64 evaluates to: a new one at every call of solve.
WorkingBoardId(h) == Len(h) + 1

\* A frame of _solve: its fraction argument and the board as it was called.
Frame(f, b) == [fraction |-> f, entry |-> b]

Top(s) == s[Len(s)]

Pop(s) == SubSeq(s, 1, Len(s) - 1)

Recorded(t, p, v) == IF t.on THEN [t EXCEPT !.ops = Append(@, <<p, v>>)] ELSE t

\* The consumer's first next(): the body starts, the board is allocated
\* and _solve([None] * 64, regs, 0, 0, progress) is called.
Start ==
    /\ pc = "start"
    /\ LET id == WorkingBoardId(heap)
       IN  /\ heap' = IF id = Len(heap) + 1
                      THEN Append(heap, NewBoard(puzzle.cells)) ELSE heap
           /\ wb' = id
    /\ pos' = 0
    /\ pc' = "enter"
    /\ stack' = <<Frame(ZeroFraction(puzzle.cells), NewBoard(puzzle.cells))>>
    /\ UNCHANGED <<puzzle, engine, iv, held, log, runs, mutations, probe,
                   prog, trace, other>>

\* _solve(board, regs, pos, ...) is entered: the node is counted and
\* perhaps reported; at pos == len(board) the board is yielded.
Enter ==
    /\ pc = "enter"
    /\ prog' = Visit(prog, engine)
    /\ trace' = [trace EXCEPT !.visits = @ + 1,
                              !.last = trace.now,
                              !.now = Top(stack).fraction]
    /\ IF IsTerminal(pos, puzzle.cells)
       THEN IF YieldsSolution(prog.on)
            THEN LET id == YieldedId(engine, heap, wb)
                 IN  /\ heap' = IF id = Len(heap) + 1 THEN Append(heap, board) ELSE heap
                     /\ held' = Append(held, id)
                     /\ log' = Append(log, board)
                     /\ pc' = "yielded"
            ELSE /\ pc' = "return"
                 /\ UNCHANGED <<heap, held, log>>
       ELSE /\ pc' = "loop"
            /\ UNCHANGED <<heap, held, log>>
    /\ UNCHANGED <<puzzle, engine, wb, pos, iv, runs, mutations, probe,
                   stack, other>>

\* for i in range(1, 9): board[pos] = i, or the range is exhausted.
Loop ==
    /\ pc = "loop"
    /\ IF iv[pos] < puzzle.n
       THEN LET k == NextIter(iv[pos])
            IN  /\ iv' = [iv EXCEPT ![pos] = k]
                /\ heap' = [heap EXCEPT ![wb][pos] = RangeItem(k, puzzle.n)]
                /\ trace' = Recorded(trace, pos, RangeItem(k, puzzle.n))
                /\ pc' = "check"
       ELSE /\ pc' = "clear"
            /\ UNCHANGED <<iv, heap, trace>>
    /\ UNCHANGED <<puzzle, engine, wb, pos, held, log, runs, mutations, probe,
                   prog, stack, other>>

\* if all(...): yield from _solve(board, regs, pos + 1, fraction + ..., progress)
Check ==
    /\ pc = "check"
    /\ heap' = [heap EXCEPT ![wb] = AfterValidation(regs[pos], @)]
    /\ IF AllValid(regs[pos], board)
       THEN /\ pos' = pos + 1
            /\ stack' = Append(stack,
                           Frame(NextFraction(Top(stack).fraction, pos,
                                              board[pos], puzzle.n),
                                 heap'[wb]))
            /\ pc' = "enter"
       ELSE /\ pc' = "loop"
            /\ UNCHANGED <<pos, stack>>
    /\ UNCHANGED <<puzzle, engine, wb, iv, held, log, runs, mutations, probe,
                   prog, trace, other>>

\* board[pos] = None, after the loop.
Clear ==
    /\ pc = "clear"
    /\ heap' = [heap EXCEPT ![wb] = ClearCell(@, pos)]
    /\ trace' = Recorded(trace, pos, Empty)
    /\ iv' = [iv EXCEPT ![pos] = 0]
    /\ pc' = "return"
    /\ UNCHANGED <<puzzle, engine, wb, pos, held, log, runs, mutations, probe,
                   prog, stack, other>>

\* The _solve call at depth pos returns: to its caller's loop, or, at
\* depth 0, after the report of 100%, the generator is exhausted.
Return ==
    /\ pc = "return"
    /\ stack' = Pop(stack)
    /\ IF pos = 0
       THEN /\ pc' = "done"
            /\ prog' = IF prog.on /\ engine # "interf"
                       THEN [prog EXCEPT !.final = TRUE] ELSE prog
            /\ UNCHANGED pos
       ELSE /\ pos' = pos - 1
            /\ pc' = "loop"
            /\ UNCHANGED prog
    /\ UNCHANGED <<puzzle, engine, heap, wb, iv, held, log, runs, mutations,
                   probe, trace, other>>

\* The consumer's next() after a yield: backtrack.solve rewrites the
\* progress report, and the call at depth len(board) ends.
Resume ==
    /\ pc = "yielded"
    /\ prog' = IF prog.on /\ engine = "backtrack"
               THEN [prog EXCEPT !.rewrites = @ + 1] ELSE prog
    /\ pc' = "return"
    /\ UNCHANGED <<puzzle, engine, heap, wb, pos, iv, held, log, runs,
                   mutations, probe, stack, trace, other>>

Next == Start \/ Enter \/ Loop \/ Check \/ Clear \/ Return \/ Resume

Spec == Init /\ [][Next]_vars

\* The consumer keeps pulling and the interpreter keeps running the body.
SpecFair == Spec /\ WF_vars(Next)

\* ---------------------------------------------------------------- consumer

\* Between pulls the consumer overwrites a cell of a board it was handed.
Mutate ==
    /\ pc \in {"start", "yielded", "done"}
    /\ mutations < MaxMutations
    /\ \E k \in 1..Len(held), p \in 0..(puzzle.cells - 1), v \in 0..puzzle.n :
          /\ heap[held[k]][p] # v
          /\ heap' = [heap EXCEPT ![held[k]][p] = v]
    /\ mutations' = mutations + 1
    /\ UNCHANGED <<puzzle, engine, wb, pos, iv, pc, held, log, runs, probe,
                   prog, stack, trace, other>>

\* After exhaustion the consumer invokes solve again on the same region
\* index: a new generator, not yet started.
Restart ==
    /\ pc = "done"
    /\ Len(runs) + 1 < MaxRuns
    /\ runs' = Append(runs, log)
    /\ log' = <<>>
    /\ wb' = 0
    /\ pos' = 0
    /\ iv' = NoLoop(puzzle.cells)
    /\ pc' = "start"
    /\ prog' = Progress(prog.on, prog.interval)
    /\ trace' = Trace(trace.on)
    /\ UNCHANGED <<puzzle, engine, heap, held, mutations, probe, stack, other>>

InitIso == InitWith(SmallPuzzles, Engines) /\ probe = NoProbe /\ Plain

NextIso == Next \/ Mutate \/ Restart

SpecIso == InitIso /\ [][NextIso]_vars

\* ------------------------------------------------------------ with progress

ProgPuzzles == SmallPuzzles \cup {CalcuPuzzle, LatinPuzzle(3)}

\* progress=True: backtrack.solve with every report interval, solve.solve
\* with its PROGRESS_RESET.
InitProg ==
    /\ \/ /\ InitWith(ProgPuzzles, {"backtrack"})
          /\ \E k \in 1..MaxInterval : prog = Progress(TRUE, k)
       \/ /\ InitWith(SmallPuzzles \cup {DeepPuzzle}, {"solve"})
          /\ prog = Progress(TRUE, PROGRESS_RESET)
    /\ probe = NoProbe
    /\ stack = <<>>
    /\ trace = Trace(FALSE)
    /\ other = NoOther

SpecProg == InitProg /\ [][Next]_vars

\* ----------------------------------------------------------- two generators

\* What a suspended generator keeps: its frames' locals and its closure.
Context ==
    [wb |-> wb, pos |-> pos, iv |-> iv, pc |-> pc, held |-> held, log |-> log,
     prog |-> prog, stack |-> stack, trace |-> trace]

\* A generator just created by solve(regs, progress=False).
Created(cells) ==
    [wb |-> 0, pos |-> 0, iv |-> NoLoop(cells), pc |-> "start", held |-> <<>>,
     log |-> <<>>, prog |-> Progress(FALSE, 0), stack |-> <<>>,
     trace |-> Trace(TRUE)]

\* Two generators over the same region index, the first with or without
\* progress, the second without.
InitTwo ==
    /\ InitWith(SmallPuzzles, {"backtrack"})
    /\ probe = NoProbe
    /\ prog \in {Progress(FALSE, 0)} \cup {Progress(TRUE, k) : k \in 1..MaxInterval}
    /\ stack = <<>>
    /\ trace = Trace(TRUE)
    /\ other = Created(puzzle.cells)

\* The consumer pulls from the other generator next: a generator runs
\* from one next() to its next yield, so the two alternate at yields.
Switch ==
    /\ other.pc # "none"
    /\ pc \in {"start", "yielded", "done"}
    /\ wb' = other.wb
    /\ pos' = other.pos
    /\ iv' = other.iv
    /\ pc' = other.pc
    /\ held' = other.held
    /\ log' = other.log
    /\ prog' = other.prog
    /\ stack' = other.stack
    /\ trace' = other.trace
    /\ other' = Context
    /\ UNCHANGED <<puzzle, engine, heap, runs, mutations, probe>>

NextTwo == Next \/ Switch

SpecTwo == InitTwo /\ [][NextTwo]_vars

\* ------------------------------------------------- region evaluation alone

ProbeKinds == {"plus", "times", "minus", "divide", "sudoku"}

ProbeTargets == 0..(2 * MaxProbeDigit)

ProbeBoards ==
    UNION {[0..(k - 1) -> 0..MaxProbeDigit] : k \in 1..MaxProbeLen}

InitEval ==
    /\ InitWith({ToyPuzzle}, {"backtrack"})
    /\ Plain
    /\ \E kind \in ProbeKinds, target \in ProbeTargets, b \in ProbeBoards :
          probe = [region |-> Region(kind, target, Range0(Cardinality(DOMAIN b))),
                   board |-> b, evaluated |-> FALSE, result |-> FALSE]

\* region.isvalid(board)
Evaluate ==
    /\ ~probe.evaluated
    /\ probe' = [probe EXCEPT !.evaluated = TRUE,
                              !.result = isvalid(probe.region, probe.board)]
    /\ UNCHANGED <<puzzle, engine, heap, wb, pos, iv, pc, held, log, runs,
                   mutations, prog, stack, trace, other>>

NextEval == Evaluate

SpecEval == InitEval /\ [][NextEval]_vars


\* ------------------------------------------------- the region index alone

\* Board sizes the index is built for.
BuildSizes == {2, 3}

CustomKinds == <<"plus", "times", "minus", "divide">>

\* read_board: regs[sym][2].append(ind), the cells in reading order.
CellsNamed(names, sym, cells) ==
    SelectSeq(Range0(cells), LAMBDA ind : names[ind] = sym)

\* The custom regions of a puzzle file whose 'cells' tokens are names:
\* region sym has kind and target from its definition line.
CustomRegions(names, cells) ==
    [sym \in 1..MaxNames |->
        Region(CustomKinds[((sym - 1) % 4) + 1], sym, CellsNamed(names, sym, cells))]

InitBuild ==
    /\ InitWith({ToyPuzzle}, {"backtrack"})
    /\ Plain
    /\ \E n \in BuildSizes : \E names \in [0..(n * n - 1) -> 1..MaxNames] :
          probe = [n |-> n, custom |-> CustomRegions(names, n * n),
                   built |-> FALSE, inv |-> <<>>]

\* invert_regions(build_regions(regs))
Build ==
    /\ ~probe.built
    /\ probe' = [probe EXCEPT
                    !.built = TRUE,
                    !.inv = invert_regions(build_regions(probe.custom, probe.n),
                                           probe.n * probe.n)]
    /\ UNCHANGED <<puzzle, engine, heap, wb, pos, iv, pc, held, log, runs,
                   mutations, prog, stack, trace, other>>

NextBuild == Build

SpecBuild == InitBuild /\ [][NextBuild]_vars

\* ------------------------------------------------------- reference notions

\* base^e, or some number above cap when base^e is above cap: the
\* multiplication stops there, so that no intermediate value overflows.
RECURSIVE Pow(_, _, _)
Pow(base, e, cap) ==
    IF e = 0 THEN 1
    ELSE LET r == Pow(base, e - 1, cap) IN IF r > cap THEN r ELSE base * r

Elems(l) == {l[k] : k \in 1..Len(l)}

\* Every region listed anywhere in the region index of p.
IndexRegions(p) == UNION {Elems(p.regs[q]) : q \in 0..(p.cells - 1)}

FullyFilled(p, b) == \A q \in 0..(p.cells - 1) : b[q] \in 1..p.n

\* Every region's full-validity rule holds on the fully filled board b.
FullyValid(p, b) ==
    \A r \in IndexRegions(p) : fullvalid(r, [k \in 1..size(r) |-> b[r.positions[k]]])

\* Every fully filled board of p.
AllBoards(p) == [0..(p.cells - 1) -> 1..p.n]

\* The fully filled boards that agree with b on the cells 0..q.
Completions(p, b, q) ==
    {[x \in 0..(p.cells - 1) |-> IF x <= q THEN b[x] ELSE c[x]] :
        c \in [(q + 1)..(p.cells - 1) -> 1..p.n]}

\* Small enough for AllBoards to be enumerated.
Enumerable(p) == Pow(p.n, p.cells, BruteLimit) <= BruteLimit

IsLatin(p) == p = LatinPuzzle(p.n)

\* The number of n x n Latin squares.
LatinSquares(n) == CASE n = 1 -> 1 [] n = 2 -> 2 [] n = 3 -> 12 [] n = 4 -> 576

\* a before b in lexicographic order, position 0 most significant.
LexLess(a, b, cells) ==
    \E q \in 0..(cells - 1) :
        /\ a[q] < b[q]
        /\ \A q2 \in 0..(q - 1) : a[q2] = b[q2]

\* a <= b as numbers.
FractionLeq(a, b, cells) ==
    \/ a.int < b.int
    \/ /\ a.int = b.int
       /\ \/ a.digits = b.digits
          \/ LexLess(a.digits, b.digits, cells)

\* isvalid with a partialvalid that always returns True.
IsValidUnpruned(r, b) ==
    LET squares == getsquares(r, b)
    IN  IF Len(squares) = size(r) THEN fullvalid(r, squares) ELSE TRUE

\* The board whose first cells hold the digits of prefix, the rest empty.
BoardOf(prefix, cells) ==
    [x \in 0..(cells - 1) |-> IF x < Len(prefix) THEN prefix[x + 1] ELSE Empty]

\* The boards the same search yields, in order, when no region prunes on
\* a partly filled region: _solve at depth Len(prefix), the cells before
\* it holding prefix, trying the digits from i on.
RECURSIVE UnprunedFrom(_, _, _)
UnprunedFrom(pz, prefix, i) ==
    IF Len(prefix) = pz.cells THEN <<BoardOf(prefix, pz.cells)>>
    ELSE IF i > pz.n THEN <<>>
    ELSE LET q == Len(prefix)
             bd == BoardOf(Append(prefix, i), pz.cells)
         IN  (IF \A k \in 1..Len(pz.regs[q]) : IsValidUnpruned(pz.regs[q][k], bd)
              THEN UnprunedFrom(pz, Append(prefix, i), 1) ELSE <<>>)
             \o UnprunedFrom(pz, prefix, i + 1)

UnprunedSolve(p) == UnprunedFrom(p, <<>>, 1)

\* The board yielded last.
LastYield == log[Len(log)]

RECURSIVE Flatten(_)
Flatten(ss) == IF ss = <<>> THEN <<>> ELSE Head(ss) \o Flatten(Tail(ss))

\* What each board the consumer holds contained when it was yielded,
\* over all invocations, in the order of held.
AllLogs == Flatten(runs) \o log

\* A Sum region whose target is below the least sum its cells can have.
ContradictorySum(p) ==
    \E r \in IndexRegions(p) : r.kind = "plus" /\ r.target < size(r)

CopyEngines == {"backtrack", "solve"}

\* ------------------------------------------------------------------ claims

\* C1: run to exhaustion, backtrack.solve has yielded exactly the fully
\* filled boards on which every region's full-validity rule holds: every
\* yielded board is one, none is yielded twice, none is missing (checked
\* against the enumeration of all boards where that is feasible), and a
\* puzzle of row and column regions alone yields as many boards as there
\* are n x n Latin squares (2, 12, 576).
C1_ExactlyTheValidBoards ==
    (pc = "done" /\ engine = "backtrack") =>
        /\ \A k \in 1..Len(log) :
              FullyFilled(puzzle, log[k]) /\ FullyValid(puzzle, log[k])
        /\ Cardinality(Elems(log)) = Len(log)
        /\ Enumerable(puzzle) =>
              \A b \in AllBoards(puzzle) : FullyValid(puzzle, b) => b \in Elems(log)
        /\ IsLatin(puzzle) => Len(log) = LatinSquares(puzzle.n)

C1_Witness ==
    /\ pc = "done"
    /\ engine = "backtrack"
    /\ puzzle = LatinPuzzle(3)
    /\ Len(log) = 12

\* C2: pruning is sound: at exhaustion the search has yielded exactly the
\* sequence the same search yields when partialvalid always returns True,
\* and whenever a digit is rejected, no fully filled board that keeps the
\* cells assigned so far satisfies every region.
C2_PruningSound ==
    (engine = "backtrack" /\ Enumerable(puzzle)) =>
        /\ pc = "done" => log = UnprunedSolve(puzzle)
        /\ (pc = "check" /\ ~AllValid(regs[pos], board)) =>
              \A b \in Completions(puzzle, board, pos) : ~FullyValid(puzzle, b)

\* The calcudoku, whose Sum, Product and uniqueness regions prune on
\* partly filled regions, has been searched to exhaustion.
C2_Witness ==
    /\ pc = "done"
    /\ engine = "backtrack"
    /\ puzzle = CalcuPuzzle
    /\ Len(log) = 1

\* C4: each yielded board is lexicographically greater than the one
\* yielded before it (every yield passes through pc = "yielded" with the
\* new board last in the log).
C4_AscendingOrder ==
    (pc = "yielded" /\ engine = "backtrack" /\ Len(log) >= 2) =>
        LexLess(log[Len(log) - 1], LastYield, puzzle.cells)

C4_Witness ==
    /\ pc = "yielded"
    /\ engine = "backtrack"
    /\ Len(log) >= 3
    /\ log[Len(log) - 1][0] < LastYield[0]

\* C5: on every yielded board, every region of the region index is full
\* (isvalid takes the full-validity branch) and isvalid returns true.
C5_RoundTrip ==
    (pc = "yielded" /\ engine = "backtrack") =>
        \A r \in IndexRegions(puzzle) :
            IsFull(r, LastYield) /\ isvalid(r, LastYield)

C5_Witness ==
    /\ pc = "yielded"
    /\ engine = "backtrack"
    /\ puzzle = CalcuPuzzle
    /\ \E r \in IndexRegions(puzzle) : r.kind = "divide" /\ isvalid(r, LastYield)

\* C3: a fully filled Quotient region whose product of the others divides
\* its maximum is valid exactly when the maximum divided by that product
\* equals the target.
C3_QuotientOfMaxAndRest ==
    (/\ probe.evaluated
     /\ probe.region.kind = "divide"
     /\ IsFull(probe.region, probe.board)) =>
        LET p == partition_max(getsquares(probe.region, probe.board))
        IN  (p.m % product(p.rest) = 0) =>
                (probe.result <=> (p.m \div product(p.rest) = probe.region.target))

\* C6: backtrack.solve and solve.solve hand out fresh copies: no board the
\* consumer holds is the working board or another held board, the working
\* board holds exactly what the loops assigned whatever the consumer
\* overwrote, and at exhaustion the yielded sequence is the one the search
\* yields with no consumer at all.
C6_CopyIsolation ==
    engine \in CopyEngines =>
        /\ \A k \in 1..Len(held) :
              /\ held[k] # wb
              /\ \A j \in 1..Len(held) : j # k => held[j] # held[k]
        /\ wb # 0 => \A q \in 0..(puzzle.cells - 1) : board[q] = LoopDigit(q)
        /\ pc = "done" => log = UnprunedSolve(puzzle)

\* The consumer has overwritten the first board it was handed, the search
\* has resumed and is about to yield again.
C6_Witness ==
    /\ engine \in CopyEngines
    /\ pc = "enter"
    /\ IsTerminal(pos, puzzle.cells)
    /\ Len(held) = 1
    /\ Len(runs) = 0
    /\ heap[held[1]] # log[1]

\* C7: interf.solve never hands its working board to the consumer, and a
\* board the consumer holds and has not touched still holds what it held
\* when it was yielded.
C7_InterfNeverExposesBoard ==
    (engine = "interf" /\ mutations = 0) =>
        \A k \in 1..Len(held) : held[k] # wb /\ heap[held[k]] = AllLogs[k]

\* C8: when the consumer keeps pulling, the generator is exhausted after
\* finitely many steps, having yielded at most n^cells boards.
C8_Terminates ==
    <>(pc = "done" /\ Len(log) <= Pow(puzzle.n, puzzle.cells, Len(log)))

C8_Witness ==
    /\ pc = "done"
    /\ engine = "backtrack"
    /\ puzzle = LatinPuzzle(MaxN)
    /\ Len(log) > 0

\* C9: with a Sum region whose target is below its number of cells the
\* search never yields a board.
C9_ContradictionYieldsNothing ==
    (engine = "backtrack" /\ ContradictorySum(puzzle)) =>
        /\ log = <<>>
        /\ held = <<>>

\* Such a search has run to exhaustion, having entered the cells before
\* the contradictory region.
C9_Witness ==
    /\ engine = "backtrack"
    /\ ContradictorySum(puzzle)
    /\ pc = "done"
    /\ log = <<>>

\* C10: every invocation of backtrack.solve on the same region index, run
\* to exhaustion, has yielded the same sequence of boards as each earlier
\* invocation, whatever the consumer overwrote in the boards it holds.
C10_Deterministic ==
    (engine = "backtrack" /\ pc = "done") =>
        \A r \in 1..Len(runs) : runs[r] = log

C10_Witness ==
    /\ engine = "backtrack"
    /\ pc = "done"
    /\ Len(runs) = 1
    /\ Len(log) >= 2
    /\ \E k \in 1..Len(runs[1]) : heap[held[k]] # runs[1][k]

\* The board a suspended generator left behind, as its loops say: the
\* digit each active loop assigned last, Empty elsewhere.
LeftBoard(c) ==
    [q \in 0..(puzzle.cells - 1) |->
        IF c.iv[q] = 0 THEN Empty ELSE RangeItem(c.iv[q], puzzle.n)]

\* s is the beginning of l.
IsPrefix(s, l) == Len(s) <= Len(l) /\ s = SubSeq(l, 1, Len(s))

\* C11: two generators created by backtrack.solve over the same region
\* index, pulled in any alternation, do not disturb each other: they work
\* on different board objects, the suspended one's board stays as its own
\* loops left it while the other runs, and each yields, in order, the
\* sequence a generator yields alone, all of it once exhausted.
C11_InterleavingIndependent ==
    (other.pc # "none" /\ engine = "backtrack") =>
        /\ other.wb # 0 =>
              /\ other.wb # wb
              /\ heap[other.wb] = LeftBoard(other)
        /\ IsPrefix(log, UnprunedSolve(puzzle))
        /\ IsPrefix(other.log, UnprunedSolve(puzzle))
        /\ pc = "done" => log = UnprunedSolve(puzzle)
        /\ other.pc = "done" => other.log = UnprunedSolve(puzzle)

\* One generator is suspended at its second yield while the other, which
\* has yielded once, is running again.
C11_Witness ==
    /\ other.pc = "yielded"
    /\ Len(other.log) = 2
    /\ pc = "check"
    /\ Len(log) = 1
    /\ pos > 0

\* The suspended generator has got as far as the running one.
Abreast ==
    \/ pc = "done" /\ other.pc = "done"
    \/ pc = "yielded" /\ other.pc = "yielded" /\ Len(log) = Len(other.log)

Running == wb # 0 /\ pc \notin {"start", "done"}

\* C13 as stated: at every moment of a run exactly the positions below
\* pos, the depth of the innermost active _solve call, hold a digit, also
\* while the regions of cell pos are evaluated.
C13_OnlyBelowPosFilled ==
    Running =>
        \A q \in 0..(puzzle.cells - 1) : (board[q] # Empty) <=> (q < pos)

\* C13, amended: every position below pos holds a digit and every
\* position above pos is empty; cell pos is empty when its call is entered
\* and when it returns, holds the candidate digit while its regions are
\* evaluated, and between two candidates holds the one tried last.
C13_FilledBelowEmptyAbove ==
    Running =>
        \A q \in 0..(puzzle.cells - 1) :
            /\ q < pos => board[q] \in 1..puzzle.n
            /\ q > pos => board[q] = Empty
            /\ q = pos =>
                  /\ pc \in {"enter", "return"} => board[q] = Empty
                  /\ pc \in {"check", "clear"} => board[q] \in 1..puzzle.n
                  /\ pc = "loop" => (board[q] = Empty <=> iv[q] = 0)

\* A candidate digit sits in cell pos while its regions are evaluated.
C13_Witness ==
    /\ pc = "check"
    /\ pos >= 2
    /\ board[pos] \in 1..puzzle.n
    /\ ~AllValid(regs[pos], board)

\* C14: when a _solve(pos) call returns, the working board is as it was
\* when the call was entered: the positions below pos hold the digits they
\* held, pos and everything after it is empty (at pos == len(board): the
\* full board, untouched); and when the generator is exhausted the board
\* is entirely empty.
C14_BacktrackingRestores ==
    /\ (wb # 0 /\ pc = "return") =>
          /\ board = Top(stack).entry
          /\ \A q \in 0..(puzzle.cells - 1) :
                (q >= pos => board[q] = Empty) /\ (q < pos => board[q] # Empty)
    /\ (wb # 0 /\ pc = "done") => board = NewBoard(puzzle.cells)

\* A call below the top returns after its loop rejected and accepted
\* digits and a solution was yielded under it.
C14_Witness ==
    /\ pc = "return"
    /\ pos \in 1..(puzzle.cells - 1)
    /\ Len(log) >= 1
    /\ board = Top(stack).entry

\* The cells of region r that hold a digit on board b.
FilledCells(r, b) == {k \in 1..Len(r.positions) : b[r.positions[k]] # Empty}

\* C15: every isvalid call of a backtrack.solve search (the regions of
\* cell pos, in order, up to the first that fails) is on a region that
\* contains the cell just assigned, so at least one of its squares is
\* filled; it takes the fullvalid branch exactly when all the region's
\* cells are filled and the partialvalid branch otherwise, and partialvalid
\* therefore gets at least one and fewer than size filled squares.
C15_DispatchOnFill ==
    (pc = "check" /\ wb # 0) =>
        \A k \in 1..Len(regs[pos]) :
            (\A j \in 1..(k - 1) : isvalid(regs[pos][j], board)) =>
                LET r == regs[pos][k]
                    squares == getsquares(r, board)
                    filled == Cardinality(FilledCells(r, board))
                IN  /\ Occurs(r, pos)
                    /\ Len(squares) = filled
                    /\ filled >= 1
                    /\ IsFull(r, board) <=> filled = size(r)
                    /\ filled = size(r) =>
                          isvalid(r, board) = fullvalid(r, squares)
                    /\ filled < size(r) =>
                          /\ isvalid(r, board) = partialvalid(r, squares)
                          /\ Len(squares) \in 1..(size(r) - 1)

\* Of the regions evaluated for one cell, one is full and one is partly
\* filled.
C15_Witness ==
    /\ pc = "check"
    /\ wb # 0
    /\ AllValid(regs[pos], board)
    /\ \E k \in 1..Len(regs[pos]) : IsFull(regs[pos][k], board)
    /\ \E k \in 1..Len(regs[pos]) :
          Cardinality(FilledCells(regs[pos][k], board)) \in 2..(size(regs[pos][k]) - 1)

ProbeSquares == [k \in 1..Len(probe.region.positions) |->
                    probe.board[probe.region.positions[k]]]

\* The rearrangements of a sequence.
Orderings(l) ==
    {[k \in 1..Len(l) |-> l[f[k]]] :
        f \in {g \in [1..Len(l) -> 1..Len(l)] :
                  \A i, j \in 1..Len(l) : g[i] = g[j] => i = j}}

\* C17: on a fully filled Difference region, fullvalid is true exactly when
\* some square that is at least every other equals the target plus the sum
\* of all the other squares (one occurrence of the maximum set aside, its
\* duplicates staying among the others), and the result is the same for
\* every ordering of the squares.
C17_DifferenceRule ==
    (probe.evaluated /\ probe.region.kind = "minus"
        /\ IsFull(probe.region, probe.board)) =>
        LET sq == ProbeSquares
        IN  /\ probe.result <=>
                  \E k \in 1..Len(sq) :
                      /\ \A j \in 1..Len(sq) : sq[j] <= sq[k]
                      /\ sq[k] = probe.region.target + (Sum(sq) - sq[k])
            /\ \A s \in Orderings(sq) :
                  fullvalid(probe.region, s) = probe.result

\* A region whose maximum occurs twice, valid: target 0 on two equal squares.
C17_Witness ==
    /\ probe.evaluated
    /\ probe.region.kind = "minus"
    /\ probe.region.target = 0
    /\ ProbeSquares = <<3, 3>>
    /\ probe.result

\* C18: for custom regions whose position lists partition the cells, the
\* index invert_regions(build_regions(regs)) has one list per cell; a
\* region is in list p exactly when p is among its positions, and list p
\* holds exactly three regions: the custom region of the cell, the
\* uniqueness region of row p div n and that of column p mod n.
C18_IndexOfThree ==
    probe.built =>
        LET n == probe.n
            cellSet == 0..(n * n - 1)
            built == build_regions(probe.custom, n)
        IN  /\ DOMAIN probe.inv = cellSet
            /\ \A p \in cellSet :
                  LET l == probe.inv[p]
                  IN  /\ Len(l) = 3
                      /\ \A k \in 1..Len(built) :
                            (\E j \in 1..Len(l) : l[j] = built[k])
                                <=> Occurs(built[k], p)
                      /\ \E j \in 1..3 :
                            /\ l[j].kind # "sudoku"
                            /\ \E sym \in 1..MaxNames : l[j] = probe.custom[sym]
                      /\ \E j \in 1..3 :
                            /\ l[j].kind = "sudoku"
                            /\ Elems(l[j].positions) =
                                  {q \in cellSet : q \div n = p \div n}
                      /\ \E j \in 1..3 :
                            /\ l[j].kind = "sudoku"
                            /\ Elems(l[j].positions) =
                                  {q \in cellSet : q % n = p % n}

\* The index of a 3 x 3 board with two custom regions of several cells.
C18_Witness ==
    /\ probe.built
    /\ probe.n = 3
    /\ Len(probe.custom[1].positions) >= 3
    /\ Len(probe.custom[2].positions) >= 3
    /\ Len(probe.inv[4]) = 3

\* C19: with progress enabled, the nodes visited from one periodic report
\* to the next number exactly the configured interval: progress_interval
\* in backtrack.solve, PROGRESS_RESET in solve.solve.
C19_ReportsEveryInterval ==
    (prog.on /\ prog.periodic >= 2) => prog.gap = prog.interval

=============================================================================
